---- MODULE Spec2Model ----
(***************************************************************************)
(* The session transport layer of ciscosparkapi (restsession.py): the      *)
(* expected-response-code handling of _process, the throttling retry loop  *)
(* and response validation of _req_wrapper, and the get_pages / get_items  *)
(* generators.  Spec and SpecConfig: one RestSession used by one caller,   *)
(* one call at a time.  SpecConc: two threads sharing the session.         *)
(***************************************************************************)
EXTENDS Integers, Sequences, FiniteSets, TLC

VARIABLES
    ratelimit_step,      \* RestSession._ratelimit_step
    ratelimit_callback,  \* RestSession._ratelimit_callback: "none" or "fn"
    last_response,       \* RestSession._last_response
    pc,                  \* where the caller is: "idle", "loop", "suspended", "done"
    call,                \* the arguments _req_wrapper is running with
    req,                 \* the latest request issued (line 148)
    r,                   \* _req_wrapper's local r, the latest response
    sleep_time,          \* _req_wrapper's local sleep_time (0 before any throttle)
    nreq,                \* requests issued by the current call
    n429,                \* throttled responses received by the current call
    ncb,                 \* invocations of the rate-limit callback by the current call
    outcome,             \* how the current call ended
    walk,                \* the get_items generator and the server's pages
    base_url,            \* RestSession._base_url
    timeout,             \* RestSession._timeout
    ctor,                \* the arguments of the latest construction
    cb_result,           \* what the callback did in the latest pass of the loop
    threads              \* the threads that share the session: where each is
                         \* in _req_wrapper, the step value it has loaded, its
                         \* locals done and r, and the last_response it read

\* what a constructed session never changes but through the timeout setter
config == <<base_url, timeout, ctor, threads>>

vars == <<ratelimit_step, ratelimit_callback, last_response, pc, call, req, r,
          sleep_time, nreq, n429, ncb, outcome, walk, base_url, timeout, ctor,
          cb_result, threads>>

----------------------------------------------------------------------------
(* Bounds of the model *)

\* attempts of one _req_wrapper loop
MaxAttempts == 3
\* the backoff step is explored up to DEFAULT_BACKOFF + MaxEscalation
MaxEscalation == 2
\* passes of the loop each of the concurrent threads makes
MaxThreadAttempts == 2
\* pages of one list walk
MaxPages == 3
\* items on one page
MaxItems == 2

----------------------------------------------------------------------------
(* Program constants *)

API_THROTTLE_STATUS_CODE == 429

DEFAULT_BACKOFF == 9

Methods == {"GET", "POST", "PUT", "DELETE"}

ERC == [what \in Methods |-> IF what = "DELETE" THEN 204 ELSE 200]

----------------------------------------------------------------------------
(* The server's answers *)

\* status codes the server answers with
Statuses == {200, 204, 409, 500, API_THROTTLE_STATUS_CODE}

\* the Retry-After header of a response: absent, an integer text (zero,
\* negative, positive), or a text int() cannot parse (an HTTP date)
NoRetryAfter == [kind |-> "absent", val |-> 0]

RetryAfterValues ==
    {NoRetryAfter, [kind |-> "int", val |-> 0], [kind |-> "int", val |-> -1],
     [kind |-> "int", val |-> 5],
     [kind |-> "text", val |-> 0]}

\* a response body: json = FALSE is a body response.json() cannot decode (empty,
\* HTML); a decoded body is a mapping with or without the 'items' key
NoJson == [json |-> FALSE, has_items |-> FALSE, nitems |-> 0]

PlainJson == [json |-> TRUE, has_items |-> FALSE, nitems |-> 0]

Response(status, retry_after, body, next) ==
    [status_code |-> status, retry_after |-> retry_after, body |-> body,
     next |-> next]

\* what the server may answer to a verb call: the Retry-After header is read
\* on throttled responses only; the body of a throttled response is read only
\* when the loop ends on it, and both kinds of body come with a missing and
\* with a positive Retry-After
VerbResponses ==
    {Response(s, NoRetryAfter, b, 0) :
        s \in Statuses \ {API_THROTTLE_STATUS_CODE}, b \in {NoJson, PlainJson}}
    \cup
    {Response(API_THROTTLE_STATUS_CODE, ra, b, 0) :
        ra \in {x \in RetryAfterValues : x.kind = "absent" \/ x.val > 0},
        b \in {NoJson, PlainJson}}
    \cup
    {Response(API_THROTTLE_STATUS_CODE, ra, PlainJson, 0) :
        ra \in RetryAfterValues}

None == Response(0, NoRetryAfter, NoJson, 0)

NoOutcome == [kind |-> "none", code |-> 0]

----------------------------------------------------------------------------
(* Pure helpers of restsession.py and exceptions.py *)

Range(seq) == {seq[i] : i \in 1..Len(seq)}

\* list.remove(x): deletes the first occurrence of x
ListRemove(l, x) ==
    LET i == CHOOSE k \in 1..Len(l) :
                 l[k] = x /\ \A j \in 1..(k - 1) : l[j] # x
    IN  SubSeq(l, 1, i - 1) \o SubSeq(l, i + 1, Len(l))

\* _process, lines 185-192: the erc keyword (or the method's default) as a list
ErcList(what, erc) ==
    IF erc.kind = "absent" THEN <<ERC[what]>>
    ELSE IF erc.kind = "int" THEN <<erc.codes[1]>>
    ELSE erc.codes

\* _process, lines 194-196: if 429 is in the list, remove it
RemoveThrottle(ercList) ==
    IF API_THROTTLE_STATUS_CODE \in Range(ercList)
    THEN ListRemove(ercList, API_THROTTLE_STATUS_CODE)
    ELSE ercList

\* helperfunc.utf8: a byte string becomes a unicode string, unicode stays
Utf8(v) == [type |-> "unicode", text |-> v.text]

\* helperfunc.sparkISO8601: a datetime becomes its ...T...000Z text
SparkISO8601(v) == [type |-> "iso8601", text |-> v.text]

\* _process_args, lines 66-71: the conversion of one keyword value
ConvertArg(v) ==
    IF v.type \in {"str", "unicode"} THEN Utf8(v)
    ELSE IF v.type = "datetime" THEN SparkISO8601(v)
    ELSE v

Restrict(f, S) == [k \in S |-> f[k]]

\* _process_args: the keyword arguments as requests.request receives them:
\* the eligible fields moved into one 'json' or 'params' dictionary (only
\* when there is at least one), the others left in place; args['json'] = data
\* and args['params'] = data replace a keyword of that name the caller passed
ProcessArgs(what, apiattr, args) ==
    LET conv == [k \in DOMAIN args |-> ConvertArg(args[k])]
        data == Restrict(conv, DOMAIN args \cap apiattr)
        rest == Restrict(conv, DOMAIN args \ apiattr)
        key  == IF DOMAIN data = {} THEN "none"
                ELSE IF what \in {"POST", "PUT"} THEN "json"
                ELSE "params"
    IN  [payload_key |-> key,
         payload |-> data,
         kwargs |-> Restrict(rest, DOMAIN rest \ {key})]

\* _fib / fib: the n-th Fibonacci number, by the generator's a, b = b, a + b
RECURSIVE FibIter(_, _, _, _)
FibIter(a, b, counter, n) ==
    IF counter < n THEN FibIter(b, a + b, counter + 1, n) ELSE a

fib(n) == FibIter(0, 1, 0, n)

\* _req_wrapper, line 152: int(r.headers.get('Retry-After', 0)); only called
\* on a header int() can parse
RetryAfter(resp) ==
    IF resp.retry_after.kind = "absent" THEN 0 ELSE resp.retry_after.val

C20_WaitFromIncrementedStep(step, retry_after) ==
    IF retry_after > 0 THEN retry_after ELSE fib(step + 1)

\* _req_wrapper, lines 153-157: the wait reported to the callback
SleepTime(step, retry_after) ==
    IF retry_after > 0 THEN retry_after ELSE fib(step)

\* _req_wrapper, lines 153-155: the step after the Retry-After branch
StepAfterHint(step, retry_after) ==
    IF retry_after > 0 THEN DEFAULT_BACKOFF ELSE step

C21_RetryWhateverPolicySays(step, st, callback, answer) ==
    IF callback = "none"
    THEN [step |-> step, sleep_time |-> st, done |-> TRUE, called |-> FALSE,
          error |-> "none"]
    ELSE [step |-> step + 1, sleep_time |-> st, done |-> FALSE,
          called |-> TRUE, error |-> "none"]

C25_PolicyErrorSwallowed(step, st, callback, answer) ==
    IF callback = "none"
    THEN [step |-> step, sleep_time |-> st, done |-> TRUE, called |-> FALSE,
          error |-> "none"]
    ELSE [step |-> step + 1, sleep_time |-> st, done |-> (answer # "true"),
          called |-> TRUE, error |-> "none"]

\* _req_wrapper, lines 160-162: the callback decides whether the loop goes
\* on, and the step is incremented, only when a callback is registered; a
\* callback that raises leaves the loop before the increment
AskCallback(step, st, callback, answer) ==
    IF callback = "none"
    THEN [step |-> step, sleep_time |-> st, done |-> TRUE, called |-> FALSE,
          error |-> "none"]
    ELSE IF answer = "raise"
    THEN [step |-> step, sleep_time |-> st, done |-> TRUE, called |-> TRUE,
          error |-> "PolicyError"]
    ELSE [step |-> step + 1, sleep_time |-> st, done |-> (answer = "false"),
          called |-> TRUE, error |-> "none"]

C3_DecrementUnclamped(step) == step - 1

C19_ForgivenAtOnce(step) == DEFAULT_BACKOFF

\* _req_wrapper, lines 165-166: reduce the backoff step, if above threshold
Decrement(step) == IF step > DEFAULT_BACKOFF THEN step - 1 ELSE step

C9_RetryAnyFailure(step, sleep) ==
    [step |-> Decrement(step), sleep_time |-> sleep, done |-> FALSE,
     called |-> FALSE, error |-> "none"]

\* _req_wrapper, lines 163-166: a response that is not throttled ends the loop
NotThrottled(step, sleep) ==
    [step |-> Decrement(step), sleep_time |-> sleep, done |-> TRUE,
     called |-> FALSE, error |-> "none"]

\* _req_wrapper, lines 150-166: what one pass of the loop does with the
\* response it received.  answer is what the callback does if it is invoked.
\* error: "ValueError" when int() cannot parse the Retry-After text,
\* "PolicyError" when the callback raises.
HandleResponse(step, callback, sleep, resp, answer) ==
    IF resp.status_code = API_THROTTLE_STATUS_CODE
    THEN IF resp.retry_after.kind = "text"
         THEN [step |-> step, sleep_time |-> sleep, done |-> TRUE,
               called |-> FALSE, error |-> "ValueError"]
         ELSE AskCallback(StepAfterHint(step, RetryAfter(resp)),
                          SleepTime(step, RetryAfter(resp)), callback, answer)
    ELSE NotThrottled(step, sleep)

\* SparkApiError.__init__: response.json().get('message') raises ValueError
\* on a body that is not JSON, before the SparkApiError exists
SparkApiError(resp) ==
    IF resp.body.json
    THEN [kind |-> "SparkApiError", code |-> resp.status_code]
    ELSE [kind |-> "ValueError", code |-> 0]

\* _req_wrapper, lines 170-174: the response code check
CheckResponse(resp, erc) ==
    IF resp.status_code \notin Range(erc) THEN SparkApiError(resp)
    ELSE [kind |-> "returned", code |-> 0]

\* _extract_and_parse_json: response.json()
ExtractAndParseJson(resp) ==
    IF resp.body.json THEN [kind |-> "returned", code |-> 0]
    ELSE [kind |-> "ValueError", code |-> 0]

\* get / post / put / delete: _process, then _extract_and_parse_json
VerbOutcome(resp, erc) ==
    IF CheckResponse(resp, erc).kind # "returned" THEN CheckResponse(resp, erc)
    ELSE ExtractAndParseJson(resp)

----------------------------------------------------------------------------
(* The caller's inputs *)

\* the erc keyword of a call: omitted, an int, or a list of ints
NoErc == [kind |-> "absent", codes |-> <<>>]

ErcInt(c) == [kind |-> "int", codes |-> <<c>>]

ErcListOf(l) == [kind |-> "list", codes |-> l]

ErcInputs ==
    {NoErc, ErcInt(200), ErcInt(API_THROTTLE_STATUS_CODE),
     ErcListOf(<<200, 409>>),
     ErcListOf(<<API_THROTTLE_STATUS_CODE>>),
     ErcListOf(<<200, API_THROTTLE_STATUS_CODE>>),
     ErcListOf(<<API_THROTTLE_STATUS_CODE, API_THROTTLE_STATUS_CODE>>),
     ErcListOf(<<API_THROTTLE_STATUS_CODE, 200, API_THROTTLE_STATUS_CODE>>)}

\* the field names eligible for the payload of the endpoint that is called
ApiAttr == {"roomId", "before"}

NoKwargs == [k \in {} |-> 0]

KwargsInputs ==
    {NoKwargs,
     [k \in {"roomId"} |-> [type |-> "str", text |-> "r1"]],
     [k \in {"roomId", "timeout"} |->
        IF k = "roomId" THEN [type |-> "unicode", text |-> "r1"]
        ELSE [type |-> "int", text |-> "5"]],
     [k \in {"before", "timeout"} |->
        IF k = "before" THEN [type |-> "datetime", text |-> "d1"]
        ELSE [type |-> "int", text |-> "5"]],
     [k \in {"verify"} |-> [type |-> "bool", text |-> "False"]],
     [k \in {"roomId", "json"} |->
        IF k = "roomId" THEN [type |-> "str", text |-> "r1"]
        ELSE [type |-> "dict", text |-> "j1"]],
     [k \in {"roomId", "bogus"} |->
        IF k = "roomId" THEN [type |-> "str", text |-> "r1"]
        ELSE [type |-> "int", text |-> "1"]]}

\* the keyword parameters of requests.Session.request, which line 148 calls
\* with **kwargs: any other keyword makes the call raise TypeError
RequestsKeywords ==
    {"params", "data", "headers", "cookies", "files", "auth", "timeout",
     "allow_redirects", "proxies", "hooks", "stream", "verify", "cert", "json"}

\* the base_url argument as urlparse sees it; text "" is the empty string and
\* text "None" the omitted argument of the facade
Url(text, scheme, netloc) == [text |-> text, scheme |-> scheme, netloc |-> netloc]

DEFAULT_API_URL == Url("https://api.ciscospark.com/v1/", TRUE, TRUE)

NoUrl == Url("None", FALSE, FALSE)

BaseUrlInputs ==
    {DEFAULT_API_URL, Url("https://spark.example/v1/", TRUE, TRUE),
     Url("api.ciscospark.com/v1/", FALSE, FALSE), Url("https://", TRUE, FALSE),
     Url("", FALSE, FALSE)}

\* the timeout argument: None, or a number of seconds
TimeoutNone == [set |-> FALSE, val |-> 0]

Seconds(n) == [set |-> TRUE, val |-> n]

TimeoutInputs == {TimeoutNone, Seconds(10), Seconds(0), Seconds(-1)}

NoCtor == [via |-> "none", base_url |-> NoUrl, timeout |-> TimeoutNone]

\* a call varies its expected codes or its keyword arguments
CallInputs ==
    {[erc |-> e, kwargs |-> NoKwargs] : e \in ErcInputs}
    \cup {[erc |-> NoErc, kwargs |-> k] : k \in KwargsInputs}

\* what the callback does when it is invoked
PolicyAnswers == {"true", "false", "raise"}

\* the threads that share one session
Threads == {1, 2}

\* a thread outside _req_wrapper that makes no call
NoThread == [pc |-> "idle", loaded |-> 0, left |-> 0, done |-> TRUE,
             r |-> None, seen |-> None]

NoThreads == [t \in Threads |-> NoThread]

NoCall == [ctx |-> "none", what |-> "GET", url |-> 0,
           input |-> [erc |-> NoErc, kwargs |-> NoKwargs], erc |-> <<>>,
           caller_erc |-> <<>>,
           args |-> ProcessArgs("GET", {}, NoKwargs)]

NoRequest == [method |-> "none", url |-> 0,
              args |-> ProcessArgs("GET", {}, NoKwargs)]

NoWalk == [state |-> "none", input |-> [erc |-> NoErc, kwargs |-> NoKwargs],
           yielded |-> <<>>, served |-> <<>>, page |-> 0, idx |-> 0,
           nreqs |-> 0, throttled |-> FALSE]

MaxStep == DEFAULT_BACKOFF + MaxEscalation

----------------------------------------------------------------------------
(* The state machine *)

\* RestSession.__init__ through CiscoSparkAPI(access_token), as example.py
\* builds it
Init ==
    /\ ratelimit_step = DEFAULT_BACKOFF
    /\ ratelimit_callback = "none"
    /\ last_response = None
    /\ pc = "idle"
    /\ call = NoCall
    /\ req = NoRequest
    /\ r = None
    /\ sleep_time = 0
    /\ nreq = 0
    /\ n429 = 0
    /\ ncb = 0
    /\ outcome = NoOutcome
    /\ walk = NoWalk
    /\ base_url = DEFAULT_API_URL
    /\ timeout = TimeoutNone
    /\ ctor = [via |-> "CiscoSparkAPI", base_url |-> NoUrl,
               timeout |-> TimeoutNone]
    /\ cb_result = "none"
    /\ threads = NoThreads

\* the ratelimit_callback setter
SetCallback ==
    /\ pc = "idle"
    /\ \E fn \in {"none", "fn"} : ratelimit_callback' = fn
    /\ UNCHANGED <<ratelimit_step, last_response, pc, call, req, r, sleep_time,
                   nreq, n429, ncb, outcome, walk, config, cb_result>>

\* _process, lines 189-196: the caller's erc argument after the call.  For a
\* list, ercList = erc binds the caller's list object itself, and remove()
\* changes it; an int, or no erc, gives a list of _process's own
CallerErc(what, erc) ==
    IF erc.kind = "list" THEN RemoveThrottle(ErcList(what, erc)) ELSE erc.codes

\* _process: the expected codes and the arguments _req_wrapper is called with
Process(ctx, what, url, erc, kwargs) ==
    [ctx |-> ctx, what |-> what, url |-> url,
     input |-> [erc |-> erc, kwargs |-> kwargs],
     erc |-> RemoveThrottle(ErcList(what, erc)),
     caller_erc |-> CallerErc(what, erc),
     args |-> ProcessArgs(what, ApiAttr, kwargs)]

\* get / post / put / delete up to the first pass of _req_wrapper's loop
VerbCall ==
    /\ pc = "idle"
    /\ \E what \in Methods, in \in CallInputs :
          call' = Process("verb", what, 1, in.erc, in.kwargs)
    /\ pc' = "loop"
    /\ req' = NoRequest
    /\ r' = None
    /\ sleep_time' = 0
    /\ nreq' = 0
    /\ n429' = 0
    /\ ncb' = 0
    /\ outcome' = NoOutcome
    /\ UNCHANGED <<ratelimit_step, ratelimit_callback, last_response, walk,
                   config, cb_result>>

\* the request _req_wrapper issues, line 148
Request(c) == [method |-> c.what, url |-> c.url, args |-> c.args]

\* line 148: the keywords left in kwargs are all parameters of request()
SupportedKwargs(c) == DOMAIN c.args.kwargs \subseteq RequestsKeywords

\* line 148 raising TypeError on a keyword request() does not have, before
\* anything is sent
RequestRejected ==
    /\ pc = "loop"
    /\ ~SupportedKwargs(call)
    /\ outcome' = [kind |-> "TypeError", code |-> 0]
    /\ pc' = "done"
    /\ walk' = IF call.ctx = "walk" THEN [walk EXCEPT !.state = "failed"]
               ELSE walk
    /\ UNCHANGED <<ratelimit_step, ratelimit_callback, last_response, call, req,
                   r, sleep_time, nreq, n429, ncb, config, cb_result>>

C24_FailureRetriedAsThrottle(step, last) ==
    [step |-> step + 1, last_response |-> last, done |-> FALSE]

\* line 148 raising: the exception leaves _req_wrapper at once, nothing is
\* caught and nothing of the session is assigned
RequestRaises(step, last) ==
    [step |-> step, last_response |-> last, done |-> TRUE]

\* line 148 raising: a connection error or a timeout of the transport
RequestFails ==
    /\ pc = "loop"
    /\ nreq < MaxAttempts
    /\ SupportedKwargs(call)
    /\ LET f == RequestRaises(ratelimit_step, last_response)
       IN  /\ f.step <= MaxStep
           /\ ratelimit_step' = f.step
           /\ last_response' = f.last_response
           /\ pc' = IF f.done THEN "done" ELSE "loop"
    /\ req' = Request(call)
    /\ nreq' = nreq + 1
    /\ outcome' = [kind |-> "ConnectionError", code |-> 0]
    /\ walk' = IF call.ctx = "walk"
               THEN [walk EXCEPT !.state = "failed", !.nreqs = @ + 1]
               ELSE walk
    /\ UNCHANGED <<ratelimit_callback, call, r, sleep_time, n429, ncb, config,
                   cb_result>>

\* what the server may answer to the request for page k of a list: the page
\* (with or without the 'items' key, with a next link only while the list
\* has more pages), a throttle, or an error status
Pages(k) ==
    {Response(200, NoRetryAfter,
              [json |-> TRUE, has_items |-> h, nitems |-> n], nx) :
        h \in BOOLEAN, n \in 0..MaxItems,
        nx \in {0} \cup (IF k < MaxPages THEN {k + 1} ELSE {})}

WalkResponses(k) ==
    {p \in Pages(k) : p.body.has_items \/ p.body.nitems = 0}
    \cup {Response(API_THROTTLE_STATUS_CODE, NoRetryAfter, b, 0) :
            b \in {NoJson, PlainJson}}
    \cup {Response(409, NoRetryAfter, PlainJson, 0)}

Responses(c) == IF c.ctx = "walk" THEN WalkResponses(c.url) ELSE VerbResponses

C22_SamePageAgain(w, resp) ==
    Process("walk", "GET", w.page, NoErc, NoKwargs)

C12_NextPageWithCallerArgs(w, resp) ==
    Process("walk", "GET", resp.next, w.input.erc, w.input.kwargs)

\* get_pages, lines 251-264: the follow-up request, _process('GET', next_url,
\* apiattr) without the caller's kwargs
NextPageCall(w, resp) == Process("walk", "GET", resp.next, NoErc, NoKwargs)

C23_EmptyPageEndsWalk(resp) == resp.next # 0 /\ resp.body.nitems > 0

\* get_pages, line 251: if response.links.get('next')
HasNext(resp) == resp.next # 0

C11_MissingItemsAsEmpty(resp) == FALSE

\* get_items, lines 280-287: json_page.get(u'items', None) is None
ItemsMissing(resp) == ~resp.body.has_items

C10_DropsLastItem(resp, idx) == idx + 1 < resp.body.nitems

\* get_items, line 282: the for loop over the page's items has another item
MoreItems(resp, idx) == idx < resp.body.nitems

\* the generators resumed with idx items of the current page resp already
\* yielded.  get_items, lines 282-283: the next item of the page is yielded;
\* get_pages, lines 251-266: when the page is exhausted, the next link is
\* followed by a new _process without the caller's arguments, or the
\* generator ends
GeneratorStep(w, c, resp, idx) ==
    IF MoreItems(resp, idx)
    THEN [pc |-> "suspended", outcome |-> NoOutcome, call |-> c, fresh |-> FALSE,
          walk |-> [w EXCEPT !.state = "running", !.idx = idx + 1,
                             !.yielded = Append(@, <<w.page, idx + 1>>)]]
    ELSE IF HasNext(resp)
    THEN [pc |-> "loop", outcome |-> NoOutcome, fresh |-> TRUE,
          call |-> NextPageCall(w, resp),
          walk |-> [w EXCEPT !.state = "running"]]
    ELSE [pc |-> "done", outcome |-> [kind |-> "StopIteration", code |-> 0],
          call |-> c, fresh |-> FALSE,
          walk |-> [w EXCEPT !.state = "ended"]]

\* get_pages / get_items on the response _process returned: the response
\* code check, the decoding of the page, the 'items' key, the first item
PageReceived(w, c, resp) ==
    LET failed(o) == [pc |-> "done", outcome |-> o, call |-> c, fresh |-> FALSE,
                      walk |-> [w EXCEPT !.state = "failed"]]
    IN  IF CheckResponse(resp, c.erc).kind # "returned"
        THEN failed(CheckResponse(resp, c.erc))
        ELSE IF ExtractAndParseJson(resp).kind # "returned"
        THEN failed(ExtractAndParseJson(resp))
        ELSE IF ItemsMissing(resp)
        THEN failed([kind |-> "ciscosparkapiException", code |-> 0])
        ELSE GeneratorStep([w EXCEPT !.served = Append(@, resp.body),
                                     !.page = c.url, !.idx = 0],
                           c, resp, 0)

\* what the caller gets once _req_wrapper's loop is left with resp
Deliver(w, c, resp) ==
    IF c.ctx = "walk" THEN PageReceived(w, c, resp)
    ELSE [pc |-> "done", outcome |-> VerbOutcome(resp, c.erc), call |-> c,
          fresh |-> FALSE, walk |-> w]

C16_CaptureOnlyAccepted(last, resp, erc) ==
    IF resp.status_code \in Range(erc) THEN resp ELSE last

\* _req_wrapper, line 169: self._last_response = deepcopy(r), before the
\* response code is checked
CaptureLastResponse(last, resp, erc) == resp

\* one pass of _req_wrapper's loop, lines 147-166, and, when the loop is
\* left, lines 169-174 and the rest of the verb or of the generators
Attempt ==
    /\ pc = "loop"
    /\ nreq < MaxAttempts
    /\ SupportedKwargs(call)
    /\ \E resp \in Responses(call), answer \in PolicyAnswers :
        LET h == HandleResponse(ratelimit_step, ratelimit_callback, sleep_time,
                                resp, answer)
            throttled == resp.status_code = API_THROTTLE_STATUS_CODE
            w == IF call.ctx = "walk"
                 THEN [walk EXCEPT !.nreqs = @ + 1,
                                   !.throttled = @ \/ throttled]
                 ELSE walk
            g == Deliver(w, call, resp)
        IN  /\ h.step <= MaxStep
            /\ req' = Request(call)
            /\ r' = resp
            /\ ratelimit_step' = h.step
            /\ sleep_time' = h.sleep_time
            /\ cb_result' = IF h.called THEN answer ELSE "none"
            /\ IF h.error # "none"
               THEN /\ pc' = "done"
                    /\ outcome' = [kind |-> h.error, code |-> 0]
                    /\ walk' = IF call.ctx = "walk"
                               THEN [w EXCEPT !.state = "failed"] ELSE w
                    /\ nreq' = nreq + 1
                    /\ n429' = n429 + 1
                    /\ ncb' = IF h.called THEN ncb + 1 ELSE ncb
                    /\ UNCHANGED <<last_response, call>>
               ELSE IF ~h.done
               THEN /\ pc' = "loop"
                    /\ walk' = w
                    /\ nreq' = nreq + 1
                    /\ n429' = IF throttled THEN n429 + 1 ELSE n429
                    /\ ncb' = IF h.called THEN ncb + 1 ELSE ncb
                    /\ UNCHANGED <<last_response, call, outcome>>
               ELSE /\ last_response' = CaptureLastResponse(last_response, resp,
                                                            call.erc)
                    /\ pc' = g.pc
                    /\ outcome' = g.outcome
                    /\ call' = g.call
                    /\ walk' = g.walk
                    /\ nreq' = IF g.fresh THEN 0 ELSE nreq + 1
                    /\ n429' = IF g.fresh THEN 0
                               ELSE IF throttled THEN n429 + 1 ELSE n429
                    /\ ncb' = IF g.fresh THEN 0
                              ELSE IF h.called THEN ncb + 1 ELSE ncb
    /\ UNCHANGED <<ratelimit_callback, config>>

\* the caller is done with the result of a call
Return ==
    /\ pc = "done"
    /\ pc' = "idle"
    /\ call' = NoCall
    /\ req' = NoRequest
    /\ r' = None
    /\ sleep_time' = 0
    /\ nreq' = 0
    /\ n429' = 0
    /\ ncb' = 0
    /\ outcome' = NoOutcome
    /\ walk' = NoWalk
    /\ cb_result' = "none"
    /\ UNCHANGED <<ratelimit_step, ratelimit_callback, last_response, config>>

\* get_items: the generator is created, nothing runs yet
WalkInputs ==
    {[erc |-> NoErc, kwargs |-> NoKwargs],
     [erc |-> ErcListOf(<<200, 409>>),
      kwargs |-> [k \in {"roomId", "timeout"} |->
                    IF k = "roomId" THEN [type |-> "unicode", text |-> "r1"]
                    ELSE [type |-> "int", text |-> "5"]]]}

GetItems ==
    /\ pc = "idle"
    /\ \E in \in WalkInputs :
          walk' = [NoWalk EXCEPT !.state = "created", !.input = in]
    /\ pc' = "suspended"
    /\ UNCHANGED <<ratelimit_step, ratelimit_callback, last_response, call, req,
                   r, sleep_time, nreq, n429, ncb, outcome, config, cb_result>>

\* the consumer asks the generator for the next item
NextItem ==
    /\ pc = "suspended"
    /\ LET g == IF walk.state = "created"
                THEN [pc |-> "loop", outcome |-> NoOutcome, fresh |-> TRUE,
                      call |-> Process("walk", "GET", 1, walk.input.erc,
                                       walk.input.kwargs),
                      walk |-> [walk EXCEPT !.state = "running"]]
                ELSE GeneratorStep(walk, call, r, walk.idx)
       IN  /\ pc' = g.pc
           /\ outcome' = g.outcome
           /\ call' = g.call
           /\ walk' = g.walk
           /\ nreq' = IF g.fresh THEN 0 ELSE nreq
           /\ n429' = IF g.fresh THEN 0 ELSE n429
           /\ ncb' = IF g.fresh THEN 0 ELSE ncb
    /\ UNCHANGED <<ratelimit_step, ratelimit_callback, last_response, req, r,
                   sleep_time, config, cb_result>>

\* the consumer drops the generator without exhausting it
Abandon ==
    /\ pc = "suspended"
    /\ pc' = "done"
    /\ outcome' = [kind |-> "abandoned", code |-> 0]
    /\ walk' = [walk EXCEPT !.state = "abandoned"]
    /\ UNCHANGED <<ratelimit_step, ratelimit_callback, last_response, call, req,
                   r, sleep_time, nreq, n429, ncb, config, cb_result>>

Next ==
    \/ SetCallback
    \/ VerbCall
    \/ RequestRejected
    \/ RequestFails
    \/ Attempt
    \/ Return
    \/ GetItems
    \/ NextItem
    \/ Abandon

Spec == Init /\ [][Next]_vars

----------------------------------------------------------------------------
(* Construction and configuration of a session *)

\* _validate_base_url: the URL has a scheme and a network location
ValidBaseUrl(u) == u.scheme /\ u.netloc

\* the timeout setter's assertion: value is None or value > 0
ValidTimeout(t) == ~t.set \/ t.val > 0

\* RestSession.__init__(access_token, base_url, timeout): the session's
\* fields, or the exception it raises
RestSessionInit(u, t) ==
    IF ~ValidBaseUrl(u)
    THEN [error |-> "ciscosparkapiException", base_url |-> NoUrl,
          timeout |-> TimeoutNone]
    ELSE IF ~ValidTimeout(t)
    THEN [error |-> "AssertionError", base_url |-> NoUrl,
          timeout |-> TimeoutNone]
    ELSE [error |-> "none", base_url |-> u, timeout |-> t]

\* Python truth of the facade's arguments: None, "" and 0 are false
TruthyUrl(u) == u.text \notin {"None", ""}

TruthyTimeout(t) == t.set /\ t.val # 0

\* CiscoSparkAPI.__init__: base_url and timeout are handed to RestSession
\* only when they are true, otherwise RestSession's defaults apply
CiscoSparkAPIInit(u, t) ==
    RestSessionInit(IF TruthyUrl(u) THEN u ELSE DEFAULT_API_URL,
                    IF TruthyTimeout(t) THEN t ELSE TimeoutNone)

\* before any session exists
InitConfig ==
    /\ ratelimit_step = DEFAULT_BACKOFF
    /\ ratelimit_callback = "none"
    /\ last_response = None
    /\ pc = "nosession"
    /\ call = NoCall
    /\ req = NoRequest
    /\ r = None
    /\ sleep_time = 0
    /\ nreq = 0
    /\ n429 = 0
    /\ ncb = 0
    /\ outcome = NoOutcome
    /\ walk = NoWalk
    /\ base_url = NoUrl
    /\ timeout = TimeoutNone
    /\ ctor = NoCtor
    /\ cb_result = "none"
    /\ threads = NoThreads

\* RestSession(...) or CiscoSparkAPI(...) is called
Construct ==
    /\ pc = "nosession"
    /\ \E via \in {"RestSession", "CiscoSparkAPI"},
          u \in BaseUrlInputs \cup {NoUrl}, t \in TimeoutInputs :
          LET s == IF via = "RestSession" THEN RestSessionInit(u, t)
                   ELSE CiscoSparkAPIInit(u, t)
          IN  /\ via = "RestSession" => u # NoUrl
              /\ ctor' = [via |-> via, base_url |-> u, timeout |-> t]
              /\ base_url' = s.base_url
              /\ timeout' = s.timeout
              /\ outcome' = IF s.error = "none" THEN NoOutcome
                            ELSE [kind |-> s.error, code |-> 0]
              /\ pc' = IF s.error = "none" THEN "idle" ELSE "nosession"
    /\ UNCHANGED <<ratelimit_step, ratelimit_callback, last_response, call, req,
                   r, sleep_time, nreq, n429, ncb, walk, cb_result, threads>>

\* the timeout setter on a session that exists
SetTimeout ==
    /\ pc = "idle"
    /\ \E t \in TimeoutInputs :
          IF ValidTimeout(t)
          THEN /\ timeout' = t
               /\ UNCHANGED <<pc, outcome>>
          ELSE /\ pc' = "done"
               /\ outcome' = [kind |-> "AssertionError", code |-> 0]
               /\ UNCHANGED timeout
    /\ UNCHANGED <<ratelimit_step, ratelimit_callback, last_response, call, req,
                   r, sleep_time, nreq, n429, ncb, walk, base_url, ctor,
                   cb_result, threads>>

NextConfig ==
    \/ Construct
    \/ SetTimeout
    \/ VerbCall
    \/ RequestRejected
    \/ RequestFails
    \/ Attempt
    \/ Return

SpecConfig == InitConfig /\ [][NextConfig]_vars

----------------------------------------------------------------------------
(* Two threads calling through one session.  _req_wrapper takes no lock:  *)
(* the threads' passes of lines 148-166 interleave between the load, the  *)
(* comparison and the store of self._ratelimit_step, and between a        *)
(* thread's store of self._last_response and its caller's read of it.     *)

\* what the server answers to a thread's request, as far as the step and
\* the status a caller reads from last_response go
ThreadResponses ==
    {Response(200, NoRetryAfter, PlainJson, 0),
     Response(409, NoRetryAfter, PlainJson, 0),
     Response(API_THROTTLE_STATUS_CODE, NoRetryAfter, PlainJson, 0),
     Response(API_THROTTLE_STATUS_CODE, [kind |-> "int", val |-> 5],
              PlainJson, 0)}

InitConc ==
    /\ ratelimit_step = DEFAULT_BACKOFF
    /\ ratelimit_callback = "none"
    /\ last_response = None
    /\ pc = "idle"
    /\ call = NoCall
    /\ req = NoRequest
    /\ r = None
    /\ sleep_time = 0
    /\ nreq = 0
    /\ n429 = 0
    /\ ncb = 0
    /\ outcome = NoOutcome
    /\ walk = NoWalk
    /\ base_url = DEFAULT_API_URL
    /\ timeout = TimeoutNone
    /\ ctor = [via |-> "CiscoSparkAPI", base_url |-> NoUrl,
               timeout |-> TimeoutNone]
    /\ cb_result = "none"
    /\ threads = [t \in Threads |->
                    [NoThread EXCEPT !.left = MaxThreadAttempts]]

\* what a thread's step leaves alone
sequential == <<ratelimit_callback, pc, call, req, r, sleep_time, nreq, n429,
                ncb, outcome, walk, base_url, timeout, ctor, cb_result>>

\* lines 147-155, 160-161 and 163: a thread receives the response to its
\* request; a positive Retry-After stores the floor (line 155); the callback,
\* when one is registered, decides done (line 161); then the thread is before
\* the increment (line 162) when a callback is registered, before the
\* comparison (line 165) when the response is no throttle, and out of the
\* loop otherwise
ThreadReceives(t) ==
    /\ threads[t].pc = "idle"
    /\ threads[t].left > 0
    /\ \E resp \in ThreadResponses, answer \in {"true", "false"} :
        LET throttled == resp.status_code = API_THROTTLE_STATUS_CODE
            asked == throttled /\ ratelimit_callback # "none"
        IN  /\ ratelimit_step' =
                  IF throttled
                  THEN StepAfterHint(ratelimit_step, RetryAfter(resp))
                  ELSE ratelimit_step
            /\ threads' = [threads EXCEPT
                  ![t].left = @ - 1,
                  ![t].r = resp,
                  ![t].seen = None,
                  ![t].done = IF asked THEN answer = "false" ELSE TRUE,
                  ![t].pc = IF ~throttled THEN "compare"
                            ELSE IF asked THEN "inc_load"
                            ELSE "capture"]
    /\ UNCHANGED <<last_response, sequential>>

\* line 162, self._ratelimit_step += 1: the load of the attribute
ThreadIncLoads(t) ==
    /\ threads[t].pc = "inc_load"
    /\ threads' = [threads EXCEPT ![t].pc = "inc_store",
                                  ![t].loaded = ratelimit_step]
    /\ UNCHANGED <<ratelimit_step, last_response, sequential>>

\* line 162: the store of the value loaded plus one
ThreadIncStores(t) ==
    /\ threads[t].pc = "inc_store"
    /\ ratelimit_step' = threads[t].loaded + 1
    /\ threads' = [threads EXCEPT
          ![t].pc = IF threads[t].done THEN "capture" ELSE "idle",
          ![t].loaded = 0]
    /\ UNCHANGED <<last_response, sequential>>

\* line 165: if self._ratelimit_step > _DEFAULT_BACKOFF
ThreadCompares(t) ==
    /\ threads[t].pc = "compare"
    /\ threads' = [threads EXCEPT
          ![t].pc = IF ratelimit_step > DEFAULT_BACKOFF THEN "dec_load"
                    ELSE "capture"]
    /\ UNCHANGED <<ratelimit_step, last_response, sequential>>

\* line 166, self._ratelimit_step -= 1: the load of the attribute
ThreadDecLoads(t) ==
    /\ threads[t].pc = "dec_load"
    /\ threads' = [threads EXCEPT ![t].pc = "dec_store",
                                  ![t].loaded = ratelimit_step]
    /\ UNCHANGED <<ratelimit_step, last_response, sequential>>

\* line 166: the store of the value loaded minus one
ThreadDecStores(t) ==
    /\ threads[t].pc = "dec_store"
    /\ ratelimit_step' = threads[t].loaded - 1
    /\ threads' = [threads EXCEPT ![t].pc = "capture", ![t].loaded = 0]
    /\ UNCHANGED <<last_response, sequential>>

\* the response codes the threads' calls expect: those MembershipsAPI.create
\* passes to post, memberships.py line 134
ThreadErc == <<200, 409>>

\* lines 169-174: the thread's response is stored in the session; then
\* _req_wrapper returns it when its code is expected, and raises otherwise,
\* which ends the caller's call as well
ThreadCaptures(t) ==
    /\ threads[t].pc = "capture"
    /\ last_response' = CaptureLastResponse(last_response, threads[t].r,
                                            ThreadErc)
    /\ threads' = [threads EXCEPT
          ![t].pc = IF threads[t].r.status_code \in Range(ThreadErc)
                    THEN "returned" ELSE "idle"]
    /\ UNCHANGED <<ratelimit_step, sequential>>

\* the thread's caller reads session.last_response after its call has
\* returned, as MembershipsAPI.create does at line 136
ThreadReadsLast(t) ==
    /\ threads[t].pc = "returned"
    /\ threads' = [threads EXCEPT ![t].pc = "idle", ![t].seen = last_response]
    /\ UNCHANGED <<ratelimit_step, last_response, sequential>>

\* the callback is registered or removed while the threads run
ThreadsSetCallback ==
    /\ \E fn \in {"none", "fn"} : ratelimit_callback' = fn
    /\ UNCHANGED <<ratelimit_step, last_response, pc, call, req, r, sleep_time,
                   nreq, n429, ncb, outcome, walk, config, cb_result>>

NextConc ==
    \/ ThreadsSetCallback
    \/ \E t \in Threads : ThreadReceives(t)
    \/ \E t \in Threads : ThreadIncLoads(t)
    \/ \E t \in Threads : ThreadIncStores(t)
    \/ \E t \in Threads : ThreadCompares(t)
    \/ \E t \in Threads : ThreadDecLoads(t)
    \/ \E t \in Threads : ThreadDecStores(t)
    \/ \E t \in Threads : ThreadCaptures(t)
    \/ \E t \in Threads : ThreadReadsLast(t)

SpecConc == InitConc /\ [][NextConc]_vars

----------------------------------------------------------------------------
(* Properties *)

\* a verb call has ended on a response that left _req_wrapper's loop
VerbEnded ==
    /\ pc = "done"
    /\ call.ctx = "verb"
    /\ outcome.kind \in {"returned", "SparkApiError", "ValueError"}
    /\ r.retry_after.kind # "text"

ApiError(code) == [kind |-> "SparkApiError", code |-> code]

\* C1: a verb call whose final response has a status in the accepted set never
\* raises SparkApiError, and one whose final status is outside the set (and is
\* not 429) always raises SparkApiError carrying exactly that status.
C1_ApiErrorExactlyOnUnexpectedStatus ==
    VerbEnded =>
        /\ r.status_code \in Range(call.erc) => outcome.kind # "SparkApiError"
        /\ (r.status_code \notin Range(call.erc)
              /\ r.status_code # API_THROTTLE_STATUS_CODE)
           => outcome = ApiError(r.status_code)

\* C2: 429 is never in the accepted set used for validation, whatever erc value
\* the caller supplied, so a 429 response without Retry-After and without a
\* callback always raises SparkApiError.
C2_ThrottleCodeNeverAccepted ==
    /\ call.ctx # "none" => API_THROTTLE_STATUS_CODE \notin Range(call.erc)
    /\ (VerbEnded /\ ratelimit_callback = "none"
          /\ r.status_code = API_THROTTLE_STATUS_CODE
          /\ r.retry_after.kind = "absent")
       => outcome.kind = "SparkApiError"

\* C3: the backoff step is never below the floor DEFAULT_BACKOFF.
C3_StepNeverBelowFloor == ratelimit_step >= DEFAULT_BACKOFF

\* C3 witness: a call was throttled once, then answered, and the decrement
\* brought the step back to the floor.
C3_Witness ==
    /\ pc = "done"
    /\ nreq = 2
    /\ n429 = 1
    /\ r.status_code = 200
    /\ ratelimit_step = DEFAULT_BACKOFF

\* C4: every throttled attempt whose response has no Retry-After header
\* increases the backoff step by exactly one, with or without a callback.
C4_ThrottleWithoutHintIncrements ==
    [][(n429' = n429 + 1 /\ r'.retry_after.kind = "absent")
         => ratelimit_step' = ratelimit_step + 1]_vars

\* C5: after a throttled attempt whose response carries a positive integer
\* Retry-After, the backoff step equals the floor.
C5_HintResetsToFloor ==
    [][(n429' = n429 + 1 /\ r'.retry_after.kind = "int"
          /\ r'.retry_after.val > 0)
         => ratelimit_step' = DEFAULT_BACKOFF]_vars

\* C6: with a callback registered, it is invoked exactly once per throttled
\* response, and for a positive integer Retry-After n the wait it is given
\* is n.
C6_CallbackOncePerThrottle ==
    (ratelimit_callback # "none" /\ call.ctx # "none") =>
        /\ ncb = n429
        /\ (r.status_code = API_THROTTLE_STATUS_CODE
              /\ r.retry_after.kind = "int" /\ r.retry_after.val > 0)
           => sleep_time = r.retry_after.val

\* C7: without a callback, a throttled response ends the call after exactly
\* one request with an error that carries status 429.
C7_NoCallbackFailsAtOnce ==
    (pc = "done" /\ call.ctx = "verb" /\ ratelimit_callback = "none"
       /\ n429 >= 1)
    => (nreq = 1 /\ outcome = ApiError(API_THROTTLE_STATUS_CODE))

\* C8: with a callback registered, after a throttled response: when the
\* callback returns false the call ends without another request and raises
\* SparkApiError 429; when it returns true the loop goes on and the next
\* request is the one already issued.
C8_CallbackDecidesRetry ==
    [][/\ (call.ctx = "verb" /\ ncb' = ncb + 1 /\ pc' = "done"
             /\ outcome'.kind # "PolicyError")
          => (nreq' = nreq + 1
                /\ outcome' = ApiError(API_THROTTLE_STATUS_CODE))
       /\ (ncb' = ncb + 1 /\ pc' = "loop")
          => (call' = call /\ req' = Request(call))
       /\ (pc = "loop" /\ nreq >= 1 /\ nreq' = nreq + 1) => req' = req]_vars

\* C9: after a response whose status is not 429 the loop is left: no further
\* request of that call follows, and the callback is not invoked for it.
C9_OnlyThrottleRetried ==
    [][(pc = "loop" /\ r'.status_code # API_THROTTLE_STATUS_CODE)
         => /\ pc' # "loop" \/ call' # call
            /\ ncb' = IF call' = call THEN ncb ELSE 0]_vars

\* C9 witness: with a callback registered, a call was throttled, retried and
\* then answered 500, outside its accepted set; it ended after that request.
C9_Witness ==
    /\ pc = "done"
    /\ call.ctx = "verb"
    /\ ratelimit_callback = "fn"
    /\ nreq = 2
    /\ n429 = 1
    /\ ncb = 1
    /\ r.status_code = 500
    /\ outcome = ApiError(500)

\* the items of page k, in page order
PageItems(k, body) == [j \in 1..body.nitems |-> <<k, j>>]

\* the concatenation of the items of the pages served, in page order
RECURSIVE AllItems(_)
AllItems(served) ==
    IF served = <<>> THEN <<>>
    ELSE AllItems(SubSeq(served, 1, Len(served) - 1))
         \o PageItems(Len(served), served[Len(served)])

\* C10: a list walk without throttling whose pages all have the items key
\* yields exactly the concatenation of the pages' items in order, makes
\* exactly one request per page, and ends after the page without next link;
\* it fails only on a response that is not such a page.
C10_WalkYieldsAllPagesInOrder ==
    /\ (walk.state = "ended" /\ ~walk.throttled)
       => /\ walk.yielded = AllItems(walk.served)
          /\ walk.nreqs = Len(walk.served)
          /\ call.url = Len(walk.served)
          /\ r.next = 0
    /\ (walk.state = "running" /\ pc = "suspended" /\ ~walk.throttled)
       => /\ Len(walk.yielded) <= Len(AllItems(walk.served))
          /\ walk.yielded = SubSeq(AllItems(walk.served), 1, Len(walk.yielded))
          /\ walk.nreqs = Len(walk.served)
    /\ (walk.state = "failed" /\ ~walk.throttled)
       => \/ outcome.kind = "ConnectionError"
          \/ r.status_code # 200
          \/ ~r.body.has_items

\* C10 witness: three pages with items were walked to the end with three
\* requests.
C10_Witness ==
    /\ walk.state = "ended"
    /\ ~walk.throttled
    /\ Len(walk.served) = 3
    /\ walk.nreqs = 3
    /\ \A k \in 1..3 : walk.served[k].nitems >= 1
    /\ Len(walk.yielded) >= 3

\* a page of a list walk has been received and has passed the response
\* code check
PageAccepted ==
    /\ call.ctx = "walk"
    /\ pc \in {"loop", "suspended", "done"}
    /\ req.url = call.url
    /\ r.status_code \in Range(call.erc)
    /\ r.status_code # API_THROTTLE_STATUS_CODE
    /\ r.body.json

\* C11: a page without the items key makes the item stream fail with
\* ciscosparkapiException right after the items of the earlier pages: nothing
\* of a later page is yielded and the page's next link is not followed; the
\* failure is not the normal end of the stream.
C11_MissingItemsFailsMidStream ==
    /\ (PageAccepted /\ ~r.body.has_items)
       => /\ pc = "done"
          /\ walk.state = "failed"
          /\ outcome = [kind |-> "ciscosparkapiException", code |-> 0]
          /\ walk.yielded = AllItems(walk.served)
          /\ Len(walk.served) = call.url - 1
          /\ req.url = call.url
          /\ ~walk.throttled => walk.nreqs = call.url
    /\ outcome.kind = "ciscosparkapiException" => walk.state # "ended"
    /\ outcome.kind = "StopIteration" => walk.state = "ended"

\* C11 witness: the second page has no items key and advertises a next link;
\* the stream failed after the items of the first page.
C11_Witness ==
    /\ walk.state = "failed"
    /\ outcome.kind = "ciscosparkapiException"
    /\ call.url = 2
    /\ r.next = 3
    /\ Len(walk.yielded) = 2
    /\ walk.nreqs = 2

\* C12: every follow-up request of a list walk is a GET to the URL of the next
\* link of the response before it, with no payload, no transport keyword and
\* the default accepted codes; the first request carries what the caller
\* passed; every request that is issued is the one of the current call.
C12_FollowUpCarriesNoCallerArgs ==
    [][/\ (call' # call /\ call'.ctx = "walk" /\ call'.url > 1)
          => /\ call'.what = "GET"
             /\ call'.url = r'.next
             /\ call'.erc = <<200>>
             /\ call'.args.payload_key = "none"
             /\ DOMAIN call'.args.payload = {}
             /\ DOMAIN call'.args.kwargs = {}
       /\ (call' # call /\ call'.ctx = "walk" /\ call'.url = 1)
          => /\ call'.what = "GET"
             /\ call'.input = walk.input
             /\ DOMAIN call'.args.payload = DOMAIN walk.input.kwargs \cap ApiAttr
             /\ DOMAIN call'.args.kwargs = DOMAIN walk.input.kwargs \ ApiAttr
       /\ (req' # req /\ req' # NoRequest /\ call.ctx = "walk")
          => /\ req'.method = call.what
             /\ req'.url = call.url
             /\ req'.args = call.args
    ]_vars

\* C12 witness: a walk started with a payload field, a timeout and accepted
\* codes of its own has issued the request for the second page without them.
C12_Witness ==
    /\ call.ctx = "walk"
    /\ walk.input.erc # NoErc
    /\ DOMAIN walk.input.kwargs = {"roomId", "timeout"}
    /\ req.url = 2
    /\ req.method = "GET"
    /\ req.args.payload_key = "none"
    /\ DOMAIN req.args.kwargs = {}
    /\ r.status_code = 200

\* a verb call that has passed _process
VerbStarted == call.ctx = "verb" /\ pc \in {"loop", "done"}

\* C13: for every verb and every set of keyword arguments the eligible fields
\* are exactly the payload, every other argument is exactly a keyword left for
\* the transport, and the payload goes out as 'json' for POST and PUT and as
\* 'params' for GET and DELETE.
C13_ArgsPartitioned ==
    VerbStarted
    => /\ DOMAIN call.args.payload = DOMAIN call.input.kwargs \cap ApiAttr
       /\ DOMAIN call.args.kwargs = DOMAIN call.input.kwargs \ ApiAttr
       /\ \A k \in DOMAIN call.args.payload :
             call.args.payload[k] = ConvertArg(call.input.kwargs[k])
       /\ \A k \in DOMAIN call.args.kwargs :
             call.args.kwargs[k] = ConvertArg(call.input.kwargs[k])
       /\ call.args.payload_key =
             IF DOMAIN call.args.payload = {} THEN "none"
             ELSE IF call.what \in {"POST", "PUT"} THEN "json" ELSE "params"
       /\ req # NoRequest => req.args = call.args /\ req.method = call.what

\* the transport options a call may carry next to the eligible fields; the
\* expected-code override is taken out by _process before the separation
TransportOptions == {"timeout"}

\* C14: a call that is left with a keyword that is no transport option fails
\* with an argument error, and no request is issued for it.
C14_UnsupportedArgumentRejected ==
    (VerbStarted /\ ~(DOMAIN call.args.kwargs \subseteq TransportOptions))
    => /\ nreq = 0
       /\ req = NoRequest
       /\ pc = "done" => outcome.kind = "TypeError"

\* the expected-code override of the call is what its responses are checked
\* against, and the method's default when there is none
ExpectedCodesUsed ==
    IF call.input.erc = NoErc THEN call.erc = <<ERC[call.what]>>
    ELSE Range(call.erc) \ {API_THROTTLE_STATUS_CODE}
         = Range(call.input.erc.codes) \ {API_THROTTLE_STATUS_CODE}

\* C15: the request of a verb call carries the timeout of the call when the
\* call has one, and the timeout of the session when it has none (so it
\* carries a timeout whenever the session has one); the expected codes are the
\* override of the call, or the default of the method.
C15_TimeoutDefaultsToSession ==
    (VerbStarted /\ req # NoRequest)
    => /\ IF "timeout" \in DOMAIN call.input.kwargs
          THEN /\ "timeout" \in DOMAIN req.args.kwargs
               /\ req.args.kwargs["timeout"]
                     = ConvertArg(call.input.kwargs["timeout"])
          ELSE "timeout" \in DOMAIN req.args.kwargs <=> timeout.set
       /\ ExpectedCodesUsed

\* C16: after a verb call that ended on a response, returning or raising,
\* last_response is that final response and none of the throttled ones that
\* were retried; a 409 answer to a call that accepts 200 and 409 raises no
\* SparkApiError, returns once its body is decoded, and is the last response.
C16_LastResponseIsFinalResponse ==
    VerbEnded
    => /\ last_response = r
       /\ (r.status_code = 409 /\ call.input.erc = ErcListOf(<<200, 409>>))
          => /\ outcome.kind # "SparkApiError"
             /\ r.body.json => outcome.kind = "returned"
             /\ last_response.status_code = 409

\* C16 witness: a POST accepting 200 and 409 was throttled, retried and then
\* answered 409; it returned and the 409 is the last response.
C16_Witness ==
    /\ VerbEnded
    /\ call.what = "POST"
    /\ call.input.erc = ErcListOf(<<200, 409>>)
    /\ n429 >= 1
    /\ r.status_code = 409
    /\ outcome.kind = "returned"
    /\ last_response.status_code = 409

\* the arguments of the last construction name a base URL without scheme or
\* host, or a timeout that is set and not greater than zero
BadConfiguration ==
    /\ ctor # NoCtor
    /\ \/ ctor.base_url # NoUrl /\ ~ValidBaseUrl(ctor.base_url)
       \/ ~ValidTimeout(ctor.timeout)

\* C17: a construction with such arguments, of the RestSession or through
\* CiscoSparkAPI, fails and leaves no session; the timeout of a session is
\* always unset or greater than zero.
C17_BadConfigurationRejected ==
    /\ BadConfiguration
       => /\ pc = "nosession"
          /\ outcome.kind \in {"ciscosparkapiException", "AssertionError"}
    /\ ValidTimeout(timeout)

\* C18: without an erc keyword the accepted codes are 200 for GET, POST and
\* PUT and 204 for DELETE: the accepted one of 200 and 204 raises no
\* SparkApiError, the other one raises SparkApiError with its status.
C18_DefaultExpectedCodes ==
    (VerbEnded /\ call.input.erc = NoErc)
    => /\ call.erc = IF call.what = "DELETE" THEN <<204>> ELSE <<200>>
       /\ r.status_code = (IF call.what = "DELETE" THEN 204 ELSE 200)
          => outcome.kind # "SparkApiError"
       /\ r.status_code = (IF call.what = "DELETE" THEN 200 ELSE 204)
          => outcome = ApiError(r.status_code)

\* a step of the loop that received a response that is not a throttle
NonThrottledAttempt ==
    /\ pc = "loop"
    /\ outcome'.kind \notin {"ConnectionError", "TypeError"}
    /\ r'.status_code # API_THROTTLE_STATUS_CODE

\* C19: every attempt that is not throttled takes exactly one off a backoff
\* step above the floor and leaves a step at the floor where it is, so k such
\* attempts bring a step of floor + k back to the floor, where it stays.
C19_SuccessDecrementsByOne ==
    [][NonThrottledAttempt
       => ratelimit_step' = IF ratelimit_step > DEFAULT_BACKOFF
                            THEN ratelimit_step - 1
                            ELSE DEFAULT_BACKOFF
    ]_vars

\* C19 witness: two throttles took the step two above the floor and the
\* answer that followed took one off.
C19_Witness ==
    /\ pc = "done"
    /\ call.ctx = "verb"
    /\ n429 = 2
    /\ nreq = 3
    /\ r.status_code = 200
    /\ ratelimit_step = DEFAULT_BACKOFF + 1

\* the Fibonacci numbers F(1), F(2), ... as a table; F(0) = 0
FibonacciTable == <<1, 1, 2, 3, 5, 8, 13, 21, 34, 55, 89, 144, 233, 377>>

Fibonacci(n) == IF n = 0 THEN 0 ELSE FibonacciTable[n]

\* a step of the loop that received a throttle without Retry-After and asked
\* the callback
UnhintedThrottleWithPolicy ==
    /\ pc = "loop"
    /\ r'.status_code = API_THROTTLE_STATUS_CODE
    /\ r'.retry_after.kind = "absent"
    /\ ncb' = ncb + 1

\* C20: the wait the callback gets for a throttle without Retry-After at
\* backoff step s is the s-th Fibonacci number, 34 at the floor, taken from
\* the step before it is incremented; when the callback approves, the step
\* grows by one, and the next such throttle of the call gets a longer wait.
C20_WaitIsFibonacciOfStep ==
    [][UnhintedThrottleWithPolicy
       => /\ sleep_time' = Fibonacci(ratelimit_step)
          /\ ratelimit_step = DEFAULT_BACKOFF => sleep_time' = 34
          /\ pc' = "loop" => ratelimit_step' = ratelimit_step + 1
          /\ (n429 >= 1 /\ r.status_code = API_THROTTLE_STATUS_CODE
                /\ r.retry_after.kind = "absent")
             => sleep_time' > sleep_time
    ]_vars

\* C20 witness: the second throttle without Retry-After of a call was handed
\* to the callback with a wait of 55 after a first one with 34.
C20_Witness ==
    /\ pc = "loop"
    /\ n429 = 2
    /\ ncb = 2
    /\ r.retry_after.kind = "absent"
    /\ sleep_time = 55
    /\ ratelimit_step = DEFAULT_BACKOFF + 2

\* a pass of the loop of a verb call that received a response
VerbPass ==
    /\ pc = "loop"
    /\ call.ctx = "verb"
    /\ nreq' = nreq + 1
    /\ outcome'.kind # "ConnectionError"

\* C21: a verb call leaves the loop in the very pass that receives a status
\* other than 429 or in which the callback returns false, so it ends as soon
\* as the server stops throttling or the policy stops approving; the loop goes
\* on only after a 429 the callback approved, each pass costs one request, and
\* without a callback the call ends with its first response.
C21_LoopEndsWithThrottleOrApproval ==
    [][VerbPass
       => /\ r'.status_code # API_THROTTLE_STATUS_CODE => pc' = "done"
          /\ cb_result' = "false" => pc' = "done"
          /\ ratelimit_callback = "none" => (pc' = "done" /\ nreq' = 1)
          /\ pc' = "loop"
             => /\ r'.status_code = API_THROTTLE_STATUS_CODE
                /\ cb_result' = "true"
                /\ call' = call
          /\ pc' \in {"loop", "done"}
          /\ pc' = "done"
             => outcome'.kind \in {"returned", "SparkApiError", "ValueError",
                                   "PolicyError"}
    ]_vars

\* C21 witness: the callback approved the first throttle of a call and
\* refused the second, which ended the call after two requests.
C21_Witness ==
    /\ pc = "done"
    /\ call.ctx = "verb"
    /\ nreq = 2
    /\ n429 = 2
    /\ ncb = 2
    /\ cb_result = "false"
    /\ outcome = ApiError(API_THROTTLE_STATUS_CODE)

\* C22: the walk is lazy and forward-only.  The call for the page after page
\* k is made only when every item of the pages up to k has been yielded and
\* the consumer is asking for the next item; nothing is requested while the
\* consumer holds an item or after it dropped the generator; the pages are
\* fetched in order, one request per page unless a throttled one is retried,
\* and no item is yielded twice.
C22_WalkLazyForwardOnly ==
    [][/\ (call.ctx = "walk" /\ call'.ctx = "walk" /\ call' # call)
          => /\ call'.url = call.url + 1
             /\ walk'.yielded = AllItems(walk'.served)
             /\ Len(walk'.served) = call.url
             /\ pc' = "loop"
             /\ pc = "suspended" \/ (pc = "loop" /\ r'.body.nitems = 0)
       /\ (pc \in {"suspended", "done"} /\ call.ctx = "walk")
          => /\ walk'.nreqs = walk.nreqs \/ walk' = NoWalk
             /\ req' = req \/ req' = NoRequest
       /\ (walk.state = "abandoned")
          => (pc = "done" /\ pc' = "idle" /\ walk' = NoWalk)
       /\ (walk'.state # "none" /\ ~walk'.throttled /\ call'.ctx = "walk")
          => walk'.nreqs <= call'.url
       /\ (walk.state # "none" /\ walk'.state # "none"
             /\ walk'.yielded # walk.yielded)
          => /\ walk'.yielded = Append(walk.yielded, <<walk'.page, walk'.idx>>)
             /\ walk.yielded # <<>>
                => LET last == walk.yielded[Len(walk.yielded)]
                   IN  \/ last[1] < walk'.page
                       \/ last[1] = walk'.page /\ last[2] < walk'.idx
    ]_vars

\* C22 witness: the consumer stopped after the first of two items of a page
\* that has a next link; one request was made and no other followed.
C22_Witness ==
    /\ walk.state = "abandoned"
    /\ pc = "done"
    /\ r.next = 2
    /\ r.body.nitems = 2
    /\ Len(walk.yielded) = 1
    /\ walk.nreqs = 1
    /\ req.url = 1

\* a pass of the loop of a list walk that received a page with the items key
PageArrives ==
    /\ pc = "loop"
    /\ call.ctx = "walk"
    /\ outcome'.kind \notin {"ConnectionError", "TypeError"}
    /\ r'.status_code = 200
    /\ r'.body.has_items

\* the consumer asks for more after the last item of the current page
PageExhausted ==
    /\ pc = "suspended"
    /\ walk.state = "running"
    /\ walk.idx = r.body.nitems
    /\ walk'.state # "abandoned"

\* C23: the walk ends exactly after a page without next link, whatever its
\* items; a page whose items are present but empty and that has a next link
\* is no end and no error: the walk goes on with that link.
C23_WalkEndsOnPageWithoutNext ==
    [][/\ walk'.state = "ended"
          => /\ r'.next = 0
             /\ r'.body.has_items
             /\ outcome' = [kind |-> "StopIteration", code |-> 0]
             /\ walk'.yielded = AllItems(walk'.served)
       /\ (PageArrives /\ r'.body.nitems = 0 /\ r'.next # 0)
          => /\ pc' = "loop"
             /\ walk'.state = "running"
             /\ outcome' = NoOutcome
             /\ call'.url = r'.next
       /\ (PageArrives /\ r'.body.nitems = 0 /\ r'.next = 0)
          => walk'.state = "ended"
       /\ (PageExhausted /\ r.next = 0) => walk'.state = "ended"
       /\ (PageExhausted /\ r.next # 0)
          => (pc' = "loop" /\ walk'.state = "running" /\ call'.url = r.next)
    ]_vars

\* C23 witness: the first page was empty with a next link, the walk went on
\* and ended after the second page, which had items and no next link.
C23_Witness ==
    /\ walk.state = "ended"
    /\ Len(walk.served) = 2
    /\ walk.served[1].nitems = 0
    /\ walk.served[2].nitems = 2
    /\ walk.nreqs = 2
    /\ Len(walk.yielded) = 2

\* a pass of the loop in which the request itself failed
TransportFailure ==
    /\ pc = "loop"
    /\ outcome.kind # "ConnectionError"
    /\ outcome'.kind = "ConnectionError"

\* C24: a connection error or timeout of an attempt ends the call at once with
\* that error: it is not retried, the callback is not invoked, and the backoff
\* step and the last response are what they were before the attempt.
C24_TransportFailurePropagates ==
    [][/\ TransportFailure
          => /\ pc' = "done"
             /\ ncb' = ncb
             /\ cb_result' = cb_result
             /\ n429' = n429
             /\ ratelimit_step' = ratelimit_step
             /\ last_response' = last_response
       /\ (pc = "done" /\ outcome.kind = "ConnectionError")
          => (pc' = "idle" /\ req' = NoRequest /\ ncb' = 0
                /\ ratelimit_step' = ratelimit_step
                /\ last_response' = last_response)
    ]_vars

\* C24 witness: after a call that returned on a 200, a call was throttled,
\* approved for a retry, and its second request failed in the transport.
C24_Witness ==
    /\ pc = "done"
    /\ call.ctx = "verb"
    /\ outcome.kind = "ConnectionError"
    /\ nreq = 2
    /\ ncb = 1
    /\ ratelimit_step = DEFAULT_BACKOFF + 1
    /\ last_response.status_code = 200
    /\ r.status_code = API_THROTTLE_STATUS_CODE

\* a pass of the loop in which the callback raised
PolicyRaises ==
    /\ pc = "loop"
    /\ ncb' = ncb + 1
    /\ cb_result' = "raise"

\* C25: an exception of the callback ends the call with that exception: the
\* throttled response is not checked against the accepted codes (no
\* SparkApiError), last_response is not assigned, and no request follows.
C25_PolicyExceptionPropagates ==
    [][/\ PolicyRaises
          => /\ pc' = "done"
             /\ outcome' = [kind |-> "PolicyError", code |-> 0]
             /\ r'.status_code = API_THROTTLE_STATUS_CODE
             /\ last_response' = last_response
             /\ nreq' = nreq + 1
       /\ (pc = "done" /\ outcome.kind = "PolicyError")
          => (pc' = "idle" /\ req' = NoRequest
                /\ last_response' = last_response)
    ]_vars

\* C25 witness: after a call that returned on a 200, the callback approved
\* the first throttle of a call and raised on the second; the last response
\* is still the 200.
C25_Witness ==
    /\ pc = "done"
    /\ outcome.kind = "PolicyError"
    /\ cb_result = "raise"
    /\ nreq = 2
    /\ ncb = 2
    /\ r.status_code = API_THROTTLE_STATUS_CODE
    /\ last_response.status_code = 200

\* a pass of the loop that received a throttle whose Retry-After is no
\* positive integer
ThrottleWithoutUsableHint ==
    /\ pc = "loop"
    /\ outcome'.kind \notin {"ConnectionError", "TypeError"}
    /\ r'.status_code = API_THROTTLE_STATUS_CODE
    /\ ~(r'.retry_after.kind = "int" /\ r'.retry_after.val > 0)

\* C26: a throttle whose Retry-After is absent, zero, negative or no integer
\* takes its wait from the Fibonacci sequence at the current step and goes on
\* to the callback, when there is one.
C26_UnusableHintIsNoHint ==
    [][ThrottleWithoutUsableHint
       => /\ sleep_time' = Fibonacci(ratelimit_step)
          /\ ratelimit_callback # "none" => ncb' = ncb + 1
    ]_vars

\* a pass of the loop of a list walk that received a throttle
WalkThrottled ==
    /\ pc = "loop"
    /\ call.ctx = "walk"
    /\ outcome'.kind \notin {"ConnectionError", "TypeError"}
    /\ r'.status_code = API_THROTTLE_STATUS_CODE

\* C27: when the fetch of a page is throttled and the callback approves, the
\* same request is made again and nothing of the stream is lost or repeated:
\* a walk that ends has yielded the items of every page once and in order;
\* when the callback refuses, the stream fails with SparkApiError 429 after
\* the items of the pages before.
C27_ThrottledWalkKeepsStream ==
    [][/\ (WalkThrottled /\ pc' = "loop")
          => /\ cb_result' = "true"
             /\ call' = call
             /\ req' = Request(call)
             /\ walk'.yielded = walk.yielded
             /\ walk'.served = walk.served
       /\ (call.ctx = "walk" /\ pc = "loop" /\ req' # req /\ req' # NoRequest)
          => req' = Request(call)
       /\ walk'.state = "ended"
          => /\ walk'.yielded = AllItems(walk'.served)
             /\ call'.url = Len(walk'.served)
       /\ (WalkThrottled /\ cb_result' = "false")
          => /\ pc' = "done"
             /\ walk'.state = "failed"
             /\ outcome' = ApiError(API_THROTTLE_STATUS_CODE)
             /\ walk'.yielded = AllItems(walk'.served)
             /\ Len(walk'.served) = call.url - 1
    ]_vars

\* C28: a verb whose final response has a status in the accepted codes
\* returns, also a DELETE answered 204 with an empty body.
C28_AcceptedResponseReturns ==
    (VerbEnded /\ r.status_code \in Range(call.erc))
    => outcome.kind = "returned"

\* C29: a verb call leaves the erc list the caller passed as it was, also
\* when it contains 429, so that a later call with the same list object is
\* checked against the same accepted codes.
C29_CallerErcUnchanged ==
    (VerbStarted /\ call.input.erc.kind = "list")
    => /\ call.caller_erc = call.input.erc.codes
       /\ RemoveThrottle(call.caller_erc) = call.erc

\* C30: with two threads on one session, interleaved between the load, the
\* comparison and the store of the step, the step is never below the floor,
\* and every increment and every decrement changes the step by exactly one
\* from the value it has when it is stored (none is lost).
C30_FloorHoldsAcrossThreads ==
    [][/\ ratelimit_step' >= DEFAULT_BACKOFF
       /\ \A t \in Threads :
            /\ (threads[t].pc = "inc_store" /\ threads'[t].pc # "inc_store")
               => ratelimit_step' = ratelimit_step + 1
            /\ (threads[t].pc = "dec_store" /\ threads'[t].pc # "dec_store")
               => ratelimit_step' = ratelimit_step - 1
    ]_vars

\* C31: with two threads on one session, the last_response a thread's caller
\* reads right after its own call is the final response of that call.
C31_CallerReadsOwnResponse ==
    \A t \in Threads :
        (threads[t].pc = "idle" /\ threads[t].seen # None)
        => threads[t].seen = threads[t].r

====
